---- MODULE Spec2Model ----
(***************************************************************************)
(* Data-access layer of the chat widget (src/lib/api.ts): fourteen async   *)
(* functions over four collections of a hosted relational store.  Each     *)
(* function builds a filtered query, awaits it, and converts every failure *)
(* into a fallback value.  A function with one round trip is one action; a *)
(* function with two round trips is two actions, because other calls can   *)
(* run between its awaits.                                                 *)
(***************************************************************************)
EXTENDS Integers, Sequences, FiniteSets, TLC

VARIABLES
    widget_settings,    \* rows of collection 'widget_settings', in storage order
    keyword_responses,  \* rows of collection 'keyword_responses'
    chat_sessions,      \* rows of collection 'chat_sessions'
    messages,           \* rows of collection 'messages'
    clock,              \* the store's source of fresh ids and creation times
    pending,            \* per caller: the two-round-trip call it is suspended in
    last,               \* the call that settled last: op, arg, faults, settled, value
    budget              \* calls still allowed (-1: unlimited)

vars == <<widget_settings, keyword_responses, chat_sessions, messages,
          clock, pending, last, budget>>

tables == <<widget_settings, keyword_responses, chat_sessions, messages>>

----------------------------------------------------------------------------
(* Bounds and input domains *)

\* rows of 'widget_settings' in one run
MaxSettings == 2

\* rows inserted in 'keyword_responses' in one run
MaxKeywords == 3

\* rows inserted in 'keyword_responses' in one run of the public read
ExposedKeywords == 2

\* rows of 'chat_sessions' in one run of the session functions
MaxSessions == 3

\* rows of 'chat_sessions' and of 'messages' in one run of the analytics
AnalysedSessions == 2

AnalysedMessages == 2

\* messages the store holds when a run over all fourteen functions begins
SeedMessages == 2

\* calls of one run of the specification over all fourteen functions
MaxCalls == 2

Procs == {"p1", "p2"}

Owners == {"u1", "u2"}

\* what the store does with one round trip: answer, answer with a structured
\* error (permission, connectivity, constraint), or make the client throw
Faults == {"ok", "error", "throw"}

Priorities == {1, 2}

Statuses == {"active", "agent_assigned", "closed"}

TimeRanges == {"7d", "30d"}

\* an id no row carries
MissingIds == {"missing"}

\* an id that is falsy: the empty string
EmptyIds == {""}

Null == [null |-> TRUE]

Idle == [pc |-> "idle"]

----------------------------------------------------------------------------
(* Rows: functions from column names to values; an absent column is NULL *)

Has(row, col, v) == col \in DOMAIN row /\ row[col] = v

\* the row with the columns of `partial` overwritten
Merge(row, partial) ==
    [c \in DOMAIN row \cup DOMAIN partial |->
        IF c \in DOMAIN partial THEN partial[c] ELSE row[c]]

Ids(table) == {table[i].id : i \in 1..Len(table)}

Count(table, col, v) == Cardinality({i \in 1..Len(table) : Has(table[i], col, v)})

----------------------------------------------------------------------------
(* The store's query builder *)

\* .eq(col, v)
Eq(rows, col, v) ==
    LET Test(r) == Has(r, col, v) IN SelectSeq(rows, Test)

\* .in(col, vs)
In(rows, col, vs) ==
    LET Test(r) == col \in DOMAIN r /\ r[col] \in vs IN SelectSeq(rows, Test)

\* r goes after every row that does not have to follow it: a stable sort
RECURSIVE InsertOrdered(_, _, _, _)
InsertOrdered(sorted, r, col, ascending) ==
    IF sorted = <<>> THEN <<r>>
    ELSE IF (IF ascending THEN Head(sorted)[col] <= r[col]
                          ELSE Head(sorted)[col] >= r[col])
         THEN <<Head(sorted)>> \o InsertOrdered(Tail(sorted), r, col, ascending)
         ELSE <<r>> \o sorted

\* .order(col, { ascending })
RECURSIVE Order(_, _, _)
Order(rows, col, ascending) ==
    IF rows = <<>> THEN <<>>
    ELSE InsertOrdered(Order(SubSeq(rows, 1, Len(rows) - 1), col, ascending),
                       rows[Len(rows)], col, ascending)

Ok(data) == [status |-> "ok", code |-> "none", data |-> data]

Failed(code) == [status |-> "error", code |-> code, data |-> Null]

Thrown == [status |-> "throw", code |-> "none", data |-> Null]

\* .single(): exactly one row, or the error PGRST116
Single(rows) == IF Len(rows) = 1 THEN Ok(rows[1]) ELSE Failed("PGRST116")

\* one round trip: the store's answer, a structured error, or an exception
RoundTrip(f, answer) ==
    IF f = "ok" THEN answer ELSE IF f = "error" THEN Failed("OTHER") ELSE Thrown

\* the row the store makes of an inserted record: id and created_at get their
\* defaults where the record supplies none; ids are opaque strings, so a
\* supplied one is kept as it is, the empty string included
Stored(record) == Merge([id |-> ToString(clock), created_at |-> clock], record)

\* .insert(record).select().single(): the id identifies the row within its
\* collection, so a record whose id a row already carries is answered with a
\* structured error (unique violation) and adds nothing
Insert(table, record) ==
    IF Stored(record).id \in Ids(table) THEN Failed("23505") ELSE Ok(Stored(record))

\* .update(partial).eq('id', id)
Updated(table, id, partial) ==
    [i \in 1..Len(table) |->
        IF Has(table[i], "id", id) THEN Merge(table[i], partial) ELSE table[i]]

\* .delete().eq('id', id)
Deleted(table, id) ==
    LET Keep(r) == ~Has(r, "id", id) IN SelectSeq(table, Keep)

----------------------------------------------------------------------------
(* How a call ends *)

\* a returned array, and a returned boolean
List(rows) == [rows |-> rows]

Flag(b) == [ok |-> b]

Fulfilled(v) == [settled |-> "fulfilled", value |-> v]

Rejected == [settled |-> "rejected", value |-> Null]

\* if (error) { log; return fallback } return data    -- inside try
\* catch { log; return fallback }
OrFallback(res, fallback) ==
    IF res.status = "ok" THEN Fulfilled(res.data) ELSE Fulfilled(fallback)

CanCall == budget # 0

Spend == budget' = IF budget > 0 THEN budget - 1 ELSE budget

\* the call settles and the caller resumes
Settle(op, arg, faults, outcome) ==
    /\ last' = [op |-> op, arg |-> arg, faults |-> faults,
                settled |-> outcome.settled, value |-> outcome.value]
    /\ Spend

----------------------------------------------------------------------------
(* Widget Settings API *)

\* the defaults inserted for a fixed owner instead of the requested one
defaultSettingsWrongOwner(userId) ==
    [user_id |-> "u1",
     business_name |-> "My Business",
     primary_color |-> "#4F46E5",
     secondary_color |-> "#EEF2FF",
     position |-> "bottom-right",
     icon |-> "message-circle",
     welcome_message |-> "Hello! How can I help you today?",
     is_active |-> TRUE,
     auto_open |-> FALSE,
     open_delay |-> 3,
     hide_on_mobile |-> FALSE]

defaultSettings(userId) ==
    [user_id |-> userId,
     business_name |-> "My Business",
     primary_color |-> "#4F46E5",
     secondary_color |-> "#EEF2FF",
     position |-> "bottom-right",
     icon |-> "message-circle",
     welcome_message |-> "Hello! How can I help you today?",
     is_active |-> TRUE,
     auto_open |-> FALSE,
     open_delay |-> 3,
     hide_on_mobile |-> FALSE]

\* getWidgetSettings, first round trip: select by user_id, single row
getWidgetSettings(p, userId, f) ==
    LET res == RoundTrip(f, Single(Eq(widget_settings, "user_id", userId))) IN
    /\ CanCall
    /\ pending[p] = Idle
    /\ IF res.status = "error" /\ res.code = "PGRST116"
       THEN /\ pending' = [pending EXCEPT ![p] =
                              [pc |-> "insertDefault", userId |-> userId, faults |-> <<f>>]]
            /\ UNCHANGED <<last, budget>>
       ELSE /\ Settle("getWidgetSettings", [userId |-> userId], <<f>>, OrFallback(res, Null))
            /\ UNCHANGED pending
    /\ UNCHANGED <<tables, clock>>

\* getWidgetSettings, second round trip: insert the default settings
getWidgetSettingsInsert(p, f) ==
    LET userId == pending[p].userId
        res    == RoundTrip(f, Insert(widget_settings, defaultSettings(userId)))
    IN
    /\ pending[p].pc = "insertDefault"
    /\ IF res.status = "ok"
       THEN /\ widget_settings' = Append(widget_settings, res.data)
            /\ clock' = clock + 1
       ELSE UNCHANGED <<widget_settings, clock>>
    /\ Settle("getWidgetSettings", [userId |-> userId], Append(pending[p].faults, f),
              OrFallback(res, Null))
    /\ pending' = [pending EXCEPT ![p] = Idle]
    /\ UNCHANGED <<keyword_responses, chat_sessions, messages>>

\* records a caller passes to updateWidgetSettings
SettingsRecords ==
    [user_id : Owners]
    \cup [id : Ids(widget_settings) \cup MissingIds \cup EmptyIds,
          primary_color : {"#000000"}]

\* if (!settings.id): no id, or a falsy one
NoId(settings) == "id" \notin DOMAIN settings \/ settings.id \in EmptyIds

updateWidgetSettings(settings, f) ==
    /\ CanCall
    /\ IF NoId(settings)
       THEN LET res == RoundTrip(f, Insert(widget_settings, settings))
            IN /\ IF res.status = "ok"
                  THEN /\ widget_settings' = Append(widget_settings, res.data)
                       /\ clock' = clock + 1
                  ELSE UNCHANGED <<widget_settings, clock>>
               /\ Settle("updateWidgetSettings", settings, <<f>>, OrFallback(res, Null))
       ELSE LET after == Updated(widget_settings, settings.id, settings)
                res   == RoundTrip(f, Single(Eq(after, "id", settings.id)))
            IN /\ widget_settings' = IF f = "ok" THEN after ELSE widget_settings
               /\ Settle("updateWidgetSettings", settings, <<f>>, OrFallback(res, Null))
               /\ UNCHANGED clock
    /\ UNCHANGED <<keyword_responses, chat_sessions, messages, pending>>

----------------------------------------------------------------------------
(* Keyword Responses API *)

\* the store's answer to getKeywordResponses' query
selectKeywordResponses(userId) ==
    Order(Eq(keyword_responses, "user_id", userId), "priority", FALSE)

getKeywordResponses(userId, f) ==
    /\ CanCall
    /\ Settle("getKeywordResponses", [userId |-> userId], <<f>>,
              OrFallback(RoundTrip(f, Ok(List(selectKeywordResponses(userId)))), List(<<>>)))
    /\ UNCHANGED <<tables, clock, pending>>

\* records a caller passes to createKeywordResponse
KeywordRecords ==
    [user_id : Owners, keyword : {"pricing"}, response : {"See our plans"},
     priority : Priorities, is_active : BOOLEAN]

createKeywordResponse(response, f) ==
    LET res == RoundTrip(f, Insert(keyword_responses, response)) IN
    /\ CanCall
    /\ IF res.status = "ok"
       THEN /\ keyword_responses' = Append(keyword_responses, res.data)
            /\ clock' = clock + 1
       ELSE UNCHANGED <<keyword_responses, clock>>
    /\ Settle("createKeywordResponse", response, <<f>>, OrFallback(res, Null))
    /\ UNCHANGED <<widget_settings, chat_sessions, messages, pending>>

\* records a caller passes to updateKeywordResponse
KeywordUpdates ==
    [id : Ids(keyword_responses) \cup MissingIds, is_active : {FALSE}]
    \cup [id : Ids(keyword_responses) \cup MissingIds, priority : {2}]

updateKeywordResponse(response, f) ==
    LET after == Updated(keyword_responses, response.id, response) IN
    /\ CanCall
    /\ keyword_responses' = IF f = "ok" THEN after ELSE keyword_responses
    /\ Settle("updateKeywordResponse", response, <<f>>,
              OrFallback(RoundTrip(f, Single(Eq(after, "id", response.id))), Null))
    /\ UNCHANGED <<widget_settings, chat_sessions, messages, clock, pending>>

\* the delete without its catch block
deleteKeywordResponseUncaught(id, f) ==
    /\ CanCall
    /\ keyword_responses' = IF f = "ok" THEN Deleted(keyword_responses, id)
                                        ELSE keyword_responses
    /\ Settle("deleteKeywordResponse", [id |-> id], <<f>>,
              CASE f = "ok" -> Fulfilled(Flag(TRUE))
                [] f = "error" -> Fulfilled(Flag(FALSE))
                [] OTHER -> Rejected)
    /\ UNCHANGED <<widget_settings, chat_sessions, messages, clock, pending>>

\* a delete that matches no row is no error of the store
deleteKeywordResponse(id, f) ==
    /\ CanCall
    /\ keyword_responses' = IF f = "ok" THEN Deleted(keyword_responses, id)
                                        ELSE keyword_responses
    /\ Settle("deleteKeywordResponse", [id |-> id], <<f>>,
              IF RoundTrip(f, Ok(Null)).status = "ok" THEN Fulfilled(Flag(TRUE))
                                                      ELSE Fulfilled(Flag(FALSE)))
    /\ UNCHANGED <<widget_settings, chat_sessions, messages, clock, pending>>

----------------------------------------------------------------------------
(* Chat History API *)

selectChatSessions(userId) ==
    Order(Eq(chat_sessions, "user_id", userId), "created_at", FALSE)

getChatSessions(userId, f) ==
    /\ CanCall
    /\ Settle("getChatSessions", [userId |-> userId], <<f>>,
              OrFallback(RoundTrip(f, Ok(List(selectChatSessions(userId)))), List(<<>>)))
    /\ UNCHANGED <<tables, clock, pending>>

\* the messages of every session, oldest first
selectChatSessionMessagesNoFilter(sessionId) ==
    Order(messages, "created_at", TRUE)

selectChatSessionMessages(sessionId) ==
    Order(Eq(messages, "chat_session_id", sessionId), "created_at", TRUE)

getChatSessionMessages(sessionId, f) ==
    /\ CanCall
    /\ Settle("getChatSessionMessages", [sessionId |-> sessionId], <<f>>,
              OrFallback(RoundTrip(f, Ok(List(selectChatSessionMessages(sessionId)))),
                         List(<<>>)))
    /\ UNCHANGED <<tables, clock, pending>>

\* records a caller passes to updateChatSession
SessionUpdates == [id : Ids(chat_sessions) \cup MissingIds, status : Statuses]

updateChatSession(session, f) ==
    LET after == Updated(chat_sessions, session.id, session) IN
    /\ CanCall
    /\ chat_sessions' = IF f = "ok" THEN after ELSE chat_sessions
    /\ Settle("updateChatSession", session, <<f>>,
              OrFallback(RoundTrip(f, Single(Eq(after, "id", session.id))), Null))
    /\ UNCHANGED <<widget_settings, keyword_responses, messages, clock, pending>>

\* records a caller passes to createChatSession
SessionRecords == [user_id : Owners, visitor_id : {"v1"}, status : Statuses]

createChatSession(session, f) ==
    LET res == RoundTrip(f, Insert(chat_sessions, session)) IN
    /\ CanCall
    /\ IF res.status = "ok"
       THEN /\ chat_sessions' = Append(chat_sessions, res.data)
            /\ clock' = clock + 1
       ELSE UNCHANGED <<chat_sessions, clock>>
    /\ Settle("createChatSession", session, <<f>>, OrFallback(res, Null))
    /\ UNCHANGED <<widget_settings, keyword_responses, messages, pending>>

\* records a caller passes to createMessage
MessageRecords ==
    [chat_session_id : Ids(chat_sessions), sender_type : {"user"}, message : {"hi"}]

createMessage(message, f) ==
    LET res == RoundTrip(f, Insert(messages, message)) IN
    /\ CanCall
    /\ IF res.status = "ok"
       THEN /\ messages' = Append(messages, res.data)
            /\ clock' = clock + 1
       ELSE UNCHANGED <<messages, clock>>
    /\ Settle("createMessage", message, <<f>>, OrFallback(res, Null))
    /\ UNCHANGED <<widget_settings, keyword_responses, chat_sessions, pending>>

\* the sessions of the owner, whatever their status
selectActiveChatSessionsNoStatus(userId) ==
    Order(Eq(chat_sessions, "user_id", userId), "created_at", FALSE)

selectActiveChatSessions(userId) ==
    Order(In(Eq(chat_sessions, "user_id", userId), "status",
             {"active", "agent_assigned"}),
          "created_at", FALSE)

getActiveChatSessions(userId, f) ==
    /\ CanCall
    /\ Settle("getActiveChatSessions", [userId |-> userId], <<f>>,
              OrFallback(RoundTrip(f, Ok(List(selectActiveChatSessions(userId)))),
                         List(<<>>)))
    /\ UNCHANGED <<tables, clock, pending>>

----------------------------------------------------------------------------
(* Analytics *)

\* .select(cols): the projection of each row
Project(rows, cols) ==
    [i \in 1..Len(rows) |-> [c \in cols \cap DOMAIN rows[i] |-> rows[i][c]]]

\* select('id') from chat_sessions of the owner
selectChatIds(userId) == Project(Eq(chat_sessions, "user_id", userId), {"id"})

\* the messages of every owner
selectMessageIdsNoJoin(userId) == Project(messages, {"id", "chat_session_id"})

\* messages inner-joined with the chat_sessions of the owner
selectMessageIds(userId) ==
    Project(In(messages, "chat_session_id", Ids(Eq(chat_sessions, "user_id", userId))),
            {"id", "chat_session_id"})

analytics(chatData, messageData, timeRange) ==
    [total_chats |-> Len(chatData),
     total_messages |-> Len(messageData),
     average_response_time |-> "8.5",
     chat_duration |-> "4.2",
     visitor_satisfaction |-> 92,
     keyword_matches |-> [pricing |-> 42, support |-> 38, features |-> 27,
                          account |-> 21, billing |-> 18, other |-> 34]]

zeroAnalytics ==
    [total_chats |-> 0,
     total_messages |-> 0,
     average_response_time |-> "0",
     chat_duration |-> "0",
     visitor_satisfaction |-> 0,
     keyword_matches |-> <<>>]

\* getAnalyticsData, first round trip: the owner's chat sessions
getAnalyticsData(p, userId, timeRange, f) ==
    LET res == RoundTrip(f, Ok(selectChatIds(userId))) IN
    /\ CanCall
    /\ pending[p] = Idle
    /\ IF res.status = "ok"
       THEN /\ pending' = [pending EXCEPT ![p] =
                              [pc |-> "messageLookup", userId |-> userId,
                               timeRange |-> timeRange, chatData |-> res.data,
                               faults |-> <<f>>]]
            /\ UNCHANGED <<last, budget>>
       ELSE /\ Settle("getAnalyticsData", [userId |-> userId, timeRange |-> timeRange], <<f>>,
                      Fulfilled(zeroAnalytics))
            /\ UNCHANGED pending
    /\ UNCHANGED <<tables, clock>>

\* getAnalyticsData, second round trip: the messages of the owner's sessions
getAnalyticsDataMessages(p, f) ==
    LET call == pending[p]
        res  == RoundTrip(f, Ok(selectMessageIds(call.userId)))
    IN
    /\ call.pc = "messageLookup"
    /\ Settle("getAnalyticsData",
              [userId |-> call.userId, timeRange |-> call.timeRange],
              Append(call.faults, f),
              IF res.status = "ok"
              THEN Fulfilled(analytics(call.chatData, res.data, call.timeRange))
              ELSE Fulfilled(zeroAnalytics))
    /\ pending' = [pending EXCEPT ![p] = Idle]
    /\ UNCHANGED <<tables, clock>>

----------------------------------------------------------------------------
(* Widget Data API for public access *)

noWidgetData == [settings |-> Null, keywordResponses |-> <<>>]

selectActiveKeywordResponses(uid) ==
    Order(Eq(Eq(keyword_responses, "user_id", uid), "is_active", TRUE),
          "priority", FALSE)

\* getWidgetData, first round trip: the owner's settings, single row
getWidgetData(p, uid, f) ==
    LET res == RoundTrip(f, Single(Eq(widget_settings, "user_id", uid))) IN
    /\ CanCall
    /\ pending[p] = Idle
    /\ IF res.status = "ok"
       THEN /\ pending' = [pending EXCEPT ![p] =
                              [pc |-> "keywordLookup", uid |-> uid,
                               settings |-> res.data, faults |-> <<f>>]]
            /\ UNCHANGED <<last, budget>>
       ELSE /\ Settle("getWidgetData", [uid |-> uid], <<f>>, Fulfilled(noWidgetData))
            /\ UNCHANGED pending
    /\ UNCHANGED <<tables, clock>>

\* getWidgetData, second round trip: the owner's active keyword responses
getWidgetDataKeywords(p, f) ==
    LET call == pending[p]
        res  == RoundTrip(f, Ok(selectActiveKeywordResponses(call.uid)))
    IN
    /\ call.pc = "keywordLookup"
    /\ Settle("getWidgetData", [uid |-> call.uid], Append(call.faults, f),
              IF res.status = "ok"
              THEN Fulfilled([settings |-> call.settings,
                              keywordResponses |-> res.data])
              ELSE Fulfilled(noWidgetData))
    /\ pending' = [pending EXCEPT ![p] = Idle]
    /\ UNCHANGED <<tables, clock>>

----------------------------------------------------------------------------
(* Specifications *)

Empty(calls) ==
    /\ widget_settings = <<>>
    /\ keyword_responses = <<>>
    /\ chat_sessions = <<>>
    /\ messages = <<>>
    /\ clock = 1
    /\ pending = [p \in Procs |-> Idle]
    /\ last = [op |-> "none", arg |-> Null, faults |-> <<>>,
               settled |-> "fulfilled", value |-> Null]
    /\ budget = calls

\* an empty store, no limit on the number of calls
Init == Empty(-1)

\* the caller of the reads with two round trips, where one caller is modelled
One == {"p1"}

\* the collection holds fewer than max rows
Room(table, max) == Len(table) < max

\* rows ever inserted in 'keyword_responses', the deleted ones included: each
\* insert takes one tick of the clock, and no other collection loses a row
KeywordsInserted ==
    clock - 1 - Len(widget_settings) - Len(chat_sessions) - Len(messages)

SettingsCalls(ps) ==
    \/ \E p \in ps, userId \in Owners, f \in Faults : getWidgetSettings(p, userId, f)
    \/ \E p \in ps, f \in Faults :
          /\ f = "ok" => Room(widget_settings, MaxSettings)
          /\ getWidgetSettingsInsert(p, f)
    \/ \E settings \in SettingsRecords, f \in Faults :
          /\ (f = "ok" /\ NoId(settings)) => Room(widget_settings, MaxSettings)
          /\ updateWidgetSettings(settings, f)

KeywordCalls ==
    \/ \E userId \in Owners, f \in Faults : getKeywordResponses(userId, f)
    \/ \E response \in KeywordRecords, f \in Faults :
          /\ f = "ok" => KeywordsInserted < MaxKeywords
          /\ createKeywordResponse(response, f)
    \/ \E response \in KeywordUpdates, f \in Faults : updateKeywordResponse(response, f)
    \/ \E id \in Ids(keyword_responses) \cup MissingIds, f \in Faults :
          deleteKeywordResponse(id, f)

SessionCalls ==
    \/ \E userId \in Owners, f \in Faults : getChatSessions(userId, f)
    \/ \E session \in SessionUpdates, f \in Faults : updateChatSession(session, f)
    \/ \E session \in SessionRecords, f \in Faults :
          /\ f = "ok" => Room(chat_sessions, MaxSessions)
          /\ createChatSession(session, f)
    \/ \E userId \in Owners, f \in Faults : getActiveChatSessions(userId, f)

MessageCalls ==
    \/ \E sessionId \in Ids(chat_sessions) \cup MissingIds, f \in Faults :
          getChatSessionMessages(sessionId, f)
    \/ \E message \in MessageRecords, f \in Faults : createMessage(message, f)

AnalyticsCalls ==
    \/ \E p \in One, userId \in Owners, timeRange \in TimeRanges, f \in Faults :
          getAnalyticsData(p, userId, timeRange, f)
    \/ \E p \in One, f \in Faults : getAnalyticsDataMessages(p, f)

WidgetDataCalls ==
    \/ \E p \in One, uid \in Owners, f \in Faults : getWidgetData(p, uid, f)
    \/ \E p \in One, f \in Faults : getWidgetDataKeywords(p, f)

\* every function of the layer
Next ==
    SettingsCalls(One) \/ KeywordCalls \/ SessionCalls \/ MessageCalls
    \/ AnalyticsCalls \/ WidgetDataCalls

\* a bounded number of calls on a store that is empty at first
Spec == Empty(MaxCalls) /\ [][Next]_vars

\* the settings functions, two concurrent callers
NextSettings == SettingsCalls(Procs)

SpecSettings == Init /\ [][NextSettings]_vars

\* the keyword functions
NextKeywords == KeywordCalls

SpecKeywords == Init /\ [][NextKeywords]_vars

\* the functions over chat sessions
NextChat == SessionCalls

SpecChat == Init /\ [][NextChat]_vars

\* sessions whose status the analytics do not look at
OpenSessionRecords == [user_id : Owners, visitor_id : {"v1"}, status : {"active"}]

\* the analytics over sessions and messages that other calls create meanwhile
NextAnalytics ==
    \/ \E session \in OpenSessionRecords, f \in {"ok"} :
          /\ Room(chat_sessions, AnalysedSessions)
          /\ createChatSession(session, f)
    \/ \E message \in MessageRecords, f \in {"ok"} :
          /\ Room(messages, AnalysedMessages)
          /\ createMessage(message, f)
    \/ AnalyticsCalls

SpecAnalytics == Init /\ [][NextAnalytics]_vars

\* records with which a caller switches a widget off
ActiveFlagRecords == [id : Ids(widget_settings), is_active : {FALSE}]

\* the public read over settings and keyword responses
NextWidget ==
    \/ \E p \in One, userId \in Owners, f \in {"ok"} : getWidgetSettings(p, userId, f)
    \/ \E p \in One, f \in {"ok"} :
          /\ Room(widget_settings, MaxSettings)
          /\ getWidgetSettingsInsert(p, f)
    \/ \E settings \in ActiveFlagRecords, f \in {"ok"} : updateWidgetSettings(settings, f)
    \/ \E response \in KeywordRecords, f \in {"ok"} :
          /\ KeywordsInserted < ExposedKeywords
          /\ createKeywordResponse(response, f)
    \/ \E response \in KeywordUpdates, f \in {"ok"} : updateKeywordResponse(response, f)
    \/ WidgetDataCalls

SpecWidget == Init /\ [][NextWidget]_vars

\* the two sessions of a store that holds messages when the calls begin
SeedSessions ==
    << [id |-> "1", created_at |-> 1, user_id |-> "u1", visitor_id |-> "v1",
        status |-> "active"],
       [id |-> "2", created_at |-> 2, user_id |-> "u2", visitor_id |-> "v1",
        status |-> "active"] >>

\* the i-th message the store was given, for the session
SeedMessage(i, sessionId) ==
    [id |-> ToString(Len(SeedSessions) + i), created_at |-> Len(SeedSessions) + i,
     chat_session_id |-> sessionId, sender_type |-> "user", message |-> "hi"]

\* the messages by creation time, each for one of the two sessions
SeedHistories ==
    UNION {{[i \in 1..n |-> SeedMessage(i, of[i])] : of \in [1..n -> Ids(SeedSessions)]} :
           n \in 0..SeedMessages}

Reverse(rows) == [i \in 1..Len(rows) |-> rows[Len(rows) + 1 - i]]

\* a store that holds two sessions and their messages; a relational store
\* keeps rows in no particular order, here oldest first or newest first
Seeded(calls) ==
    /\ widget_settings = <<>>
    /\ keyword_responses = <<>>
    /\ chat_sessions = SeedSessions
    /\ \E history \in SeedHistories :
          /\ messages \in {history, Reverse(history)}
          /\ clock = Len(SeedSessions) + Len(history) + 1
    /\ pending = [p \in Procs |-> Idle]
    /\ last = [op |-> "none", arg |-> Null, faults |-> <<>>,
               settled |-> "fulfilled", value |-> Null]
    /\ budget = calls

\* the functions that read and write no message: the store answers, and the
\* inputs are those of one owner
Answered == {"ok"}

Owner == {"u1"}

OwnerKeywordRecords ==
    [user_id : Owner, keyword : {"pricing"}, response : {"See our plans"},
     priority : {1}, is_active : {TRUE}]

ClosingUpdates == [id : Ids(chat_sessions) \cup MissingIds, status : {"closed"}]

OwnerSessionRecords == [user_id : Owner, visitor_id : {"v1"}, status : {"active"}]

\* every function of the layer on a store that holds messages
NextMessages ==
    \/ \E p \in One, userId \in Owner, f \in Answered : getWidgetSettings(p, userId, f)
    \/ \E p \in One, f \in Answered : getWidgetSettingsInsert(p, f)
    \/ \E settings \in SettingsRecords, f \in Answered : updateWidgetSettings(settings, f)
    \/ \E userId \in Owner, f \in Answered : getKeywordResponses(userId, f)
    \/ \E response \in OwnerKeywordRecords, f \in Answered :
          createKeywordResponse(response, f)
    \/ \E response \in KeywordUpdates, f \in Answered : updateKeywordResponse(response, f)
    \/ \E id \in Ids(keyword_responses) \cup MissingIds, f \in Answered :
          deleteKeywordResponse(id, f)
    \/ \E userId \in Owner, f \in Answered : getChatSessions(userId, f)
    \/ \E session \in ClosingUpdates, f \in Answered : updateChatSession(session, f)
    \/ \E session \in OwnerSessionRecords, f \in Answered : createChatSession(session, f)
    \/ \E userId \in Owner, f \in Answered : getActiveChatSessions(userId, f)
    \/ \E p \in One, userId \in Owner, timeRange \in {"7d"}, f \in Answered :
          getAnalyticsData(p, userId, timeRange, f)
    \/ \E p \in One, f \in Answered : getAnalyticsDataMessages(p, f)
    \/ \E p \in One, uid \in Owner, f \in Answered : getWidgetData(p, uid, f)
    \/ \E p \in One, f \in Answered : getWidgetDataKeywords(p, f)
    \/ MessageCalls

\* a bounded number of calls on a store that holds messages of two sessions
SpecMessages == Seeded(MaxCalls) /\ [][NextMessages]_vars

----------------------------------------------------------------------------
(* Properties *)

SomeFault(faults) == \E i \in DOMAIN faults : faults[i] # "ok"

FallbackOf(op) ==
    CASE op \in {"getKeywordResponses", "getChatSessions", "getChatSessionMessages",
                 "getActiveChatSessions"} -> List(<<>>)
      [] op = "deleteKeywordResponse" -> Flag(FALSE)
      [] op = "getAnalyticsData" -> zeroAnalytics
      [] op = "getWidgetData" -> noWidgetData
      [] OTHER -> Null

\* C1: whatever the store does with a round trip (answer, structured error,
\* exception), every call of the fourteen functions is fulfilled, never
\* rejected, and a call that met a failing round trip is fulfilled with the
\* fallback value of its function.
C1_NeverRejects ==
    /\ last.settled = "fulfilled"
    /\ SomeFault(last.faults) => last.value = FallbackOf(last.op)

\* a delete whose round trip threw has settled with false
C1_Witness ==
    /\ last.op = "deleteKeywordResponse"
    /\ last.faults = <<"throw">>
    /\ last.settled = "fulfilled"
    /\ last.value = Flag(FALSE)

\* C2: a getWidgetSettings call settles after its lookup alone only when
\* exactly one row of the owner exists, which it returns; otherwise (no row
\* found) it inserts, and when the insert succeeds it returns the newly
\* created row, which carries the requested owner id and the default values;
\* it returns null only when the round trip it settled on failed.
C2_ProvisionsDefaults ==
    last.op = "getWidgetSettings" =>
        /\ last.faults = <<"ok">> =>
              Eq(widget_settings, "user_id", last.arg.userId) = <<last.value>>
        /\ last.faults = <<"ok", "ok">> =>
              /\ last.value = widget_settings[Len(widget_settings)]
              /\ last.value.id = ToString(clock - 1)
              /\ last.value.user_id = last.arg.userId
              /\ last.value.business_name = "My Business"
              /\ last.value.primary_color = "#4F46E5"
              /\ last.value.is_active = TRUE
              /\ last.value.auto_open = FALSE
              /\ last.value.open_delay = 3
        /\ last.value = Null =>
              last.faults \in {<<"error">>, <<"throw">>,
                               <<"ok", "error">>, <<"ok", "throw">>}

\* owner u2 had no row, and the call returned the row it created for u2
C2_Witness ==
    /\ last.op = "getWidgetSettings"
    /\ last.arg.userId = "u2"
    /\ last.faults = <<"ok", "ok">>
    /\ Count(widget_settings, "user_id", "u2") = 1
    /\ last.value.user_id = "u2"

\* C3: after a getWidgetSettings call has provisioned and returned a default
\* record, the next call for that owner, with no write in between and a store
\* that answers, returns the same record and does not go on to insert.
C3_Idempotent ==
    [][(/\ last.op = "getWidgetSettings"
        /\ last.faults = <<"ok", "ok">>
        /\ last.value # Null)
       => /\ \A p \in Procs :
                pending[p] = Idle =>
                   ~(/\ pending'[p].pc = "insertDefault"
                     /\ pending'[p].userId = last.arg.userId)
          /\ (/\ last'.op = "getWidgetSettings"
              /\ last'.arg = last.arg
              /\ last'.faults = <<"ok">>) => last'.value = last.value]_vars

\* C4: in every reachable state, whatever the interleaving of the round trips
\* of getWidgetSettings calls and of updateWidgetSettings calls (with or
\* without an id), no owner has two widget_settings rows.
C4_OneRowPerOwner ==
    \A o \in Owners : Count(widget_settings, "user_id", o) <= 1

\* the record is the old row with the supplied columns overwritten
IsUpdateOf(new, old, supplied) ==
    /\ DOMAIN new = DOMAIN old \cup DOMAIN supplied
    /\ \A c \in DOMAIN new :
          new[c] = IF c \in DOMAIN supplied THEN supplied[c] ELSE old[c]

\* C6: updateWidgetSettings with a record that carries the id of an
\* existing row updates exactly that row (no row added, no other row changed,
\* the returned record the old row with the supplied fields changed); with a
\* record that has no id it inserts a new row and changes no existing row.
C6_UpsertByPresenceOfId ==
    [][(last'.op = "updateWidgetSettings" /\ pending' = pending
        /\ last'.faults = <<"ok">>) =>
        LET s   == last'.arg
            old == widget_settings
            new == widget_settings'
        IN /\ ("id" \in DOMAIN s /\ s.id \in Ids(old)) =>
                 /\ Len(new) = Len(old)
                 /\ \A i \in 1..Len(old) : old[i].id # s.id => new[i] = old[i]
                 /\ \E i \in 1..Len(old) :
                       /\ old[i].id = s.id
                       /\ new[i] = last'.value
                       /\ IsUpdateOf(last'.value, old[i], s)
           /\ "id" \notin DOMAIN s =>
                 /\ SubSeq(new, 1, Len(old)) = old
                 /\ Len(new) = Len(old) + 1
                 /\ last'.value = new[Len(new)]]_vars

\* C5: deleteKeywordResponse(id) returns false when no row has that id, and
\* true when a row has it, and then the id is in the collection no longer.
C5_DeleteReportsExistence ==
    [][(last'.op = "deleteKeywordResponse" /\ last'.faults = <<"ok">>) =>
          /\ last'.value.ok = (last'.arg.id \in Ids(keyword_responses))
          /\ last'.arg.id \notin Ids(keyword_responses')
          /\ \A userId \in Owners :
                \A i \in 1..Len(selectKeywordResponses(userId)') :
                   selectKeywordResponses(userId)'[i].id # last'.arg.id]_vars

Ascending(rows, col) ==
    \A i, j \in 1..Len(rows) : i < j => rows[i][col] <= rows[j][col]

Descending(rows, col) ==
    \A i, j \in 1..Len(rows) : i < j => rows[i][col] >= rows[j][col]

\* C7: a getChatSessionMessages(s) that the store answers, called after a
\* successful createMessage for s, returns the messages of s alone, by
\* creation time ascending, the new message last; and no step of the layer
\* changes or removes a stored message.
C7_NewMessageLast ==
    [][/\ (/\ last.op = "createMessage"
           /\ last.value # Null
           /\ last'.op = "getChatSessionMessages"
           /\ last'.arg.sessionId = last.arg.chat_session_id
           /\ last'.faults = <<"ok">>)
          => LET got == last'.value.rows IN
             /\ got # <<>>
             /\ got[Len(got)] = last.value
             /\ Ascending(got, "created_at")
             /\ \A i \in 1..Len(got) : got[i].chat_session_id = last'.arg.sessionId
             /\ Len(got) = Count(messages, "chat_session_id", last'.arg.sessionId)
       /\ Len(messages') >= Len(messages)
       /\ \A i \in 1..Len(messages) : messages'[i] = messages[i]]_vars

\* the list read after a new message of a session has the session's two
\* messages, the new one last, and leaves out the message of the other
\* session that was created between them
C7_Witness ==
    /\ last.op = "getChatSessionMessages"
    /\ last.faults = <<"ok">>
    /\ Len(last.value.rows) = 2
    /\ last.value.rows[2] = messages[Len(messages)]
    /\ \E i \in 1..Len(messages) :
          /\ messages[i].chat_session_id # last.arg.sessionId
          /\ last.value.rows[1].created_at < messages[i].created_at
          /\ messages[i].created_at < last.value.rows[2].created_at

ActiveStatuses == {"active", "agent_assigned"}

\* C8: a getActiveChatSessions(owner) that the store answers returns exactly
\* the sessions of the owner whose status is active or agent_assigned, each
\* once, by creation time descending; no result, whatever the store did, holds
\* a session of another status.
C8_OnlyActiveSessions ==
    last.op = "getActiveChatSessions" =>
        LET got == last.value.rows IN
        /\ \A i \in 1..Len(got) : got[i].status \in ActiveStatuses
        /\ last.faults = <<"ok">> =>
              /\ {got[i] : i \in 1..Len(got)} =
                    {chat_sessions[i] : i \in
                        {j \in 1..Len(chat_sessions) :
                            /\ chat_sessions[j].user_id = last.arg.userId
                            /\ chat_sessions[j].status \in ActiveStatuses}}
              /\ Cardinality({got[i] : i \in 1..Len(got)}) = Len(got)
              /\ Descending(got, "created_at")

\* the owner's most recent session is closed, and the result holds the two
\* older ones only
C8_Witness ==
    /\ last.op = "getActiveChatSessions"
    /\ last.faults = <<"ok">>
    /\ Len(last.value.rows) = 2
    /\ \E i \in 1..Len(chat_sessions) :
          /\ chat_sessions[i].user_id = last.arg.userId
          /\ chat_sessions[i].status = "closed"
          /\ \A j \in 1..Len(last.value.rows) :
                chat_sessions[i].created_at > last.value.rows[j].created_at

\* C9: getWidgetData exposes settings only when they are active, and only
\* active keyword responses.
C9_OnlyActiveExposed ==
    last.op = "getWidgetData" =>
        /\ last.value.settings # Null => Has(last.value.settings, "is_active", TRUE)
        /\ \A i \in 1..Len(last.value.keywordResponses) :
              Has(last.value.keywordResponses[i], "is_active", TRUE)

\* what getAnalyticsData returns for the two counts
Counts(chats, msgs) ==
    [total_chats |-> chats,
     total_messages |-> msgs,
     average_response_time |-> "8.5",
     chat_duration |-> "4.2",
     visitor_satisfaction |-> 92,
     keyword_matches |-> [pricing |-> 42, support |-> 38, features |-> 27,
                          account |-> 21, billing |-> 18, other |-> 34]]

MessagesOf(userId) ==
    Cardinality({i \in 1..Len(messages) :
        \E j \in 1..Len(chat_sessions) :
            /\ chat_sessions[j].user_id = userId
            /\ chat_sessions[j].id = messages[i].chat_session_id})

\* C10: getAnalyticsData looks up the sessions, then the messages.  The
\* session lookup that the store answers keeps the owner's sessions as they
\* are then; the message lookup that the store answers settles the call with
\* total_chats the number of those sessions and total_messages the number of
\* messages of the owner's sessions, whatever the time range; a failed lookup
\* settles the call with the zeroed structure, and a failed session lookup
\* settles it with no message lookup issued.
C10_AnalyticsCounts ==
    [][/\ \A p \in Procs :
             (pending[p] = Idle /\ pending'[p].pc = "messageLookup") =>
                 /\ Len(pending'[p].chatData) =
                       Count(chat_sessions, "user_id", pending'[p].userId)
                 /\ pending'[p].faults = <<"ok">>
       /\ \A p \in Procs :
             (pending[p].pc = "messageLookup" /\ pending'[p] = Idle) =>
                 /\ last'.op = "getAnalyticsData"
                 /\ last'.arg = [userId |-> pending[p].userId,
                                 timeRange |-> pending[p].timeRange]
                 /\ last'.faults[2] = "ok" =>
                       last'.value = Counts(Len(pending[p].chatData),
                                            MessagesOf(pending[p].userId))
       /\ (last'.op = "getAnalyticsData" /\ SomeFault(last'.faults)) =>
             /\ last'.value.total_chats = 0
             /\ last'.value.total_messages = 0
             /\ last'.value.visitor_satisfaction = 0
             /\ last'.faults[1] # "ok" => Len(last'.faults) = 1]_vars

\* both lookups answered for owner u2 and range 30d, who has one session
\* with no message while another owner's session has one
C10_Witness ==
    /\ last.op = "getAnalyticsData"
    /\ last.arg = [userId |-> "u2", timeRange |-> "30d"]
    /\ last.faults = <<"ok", "ok">>
    /\ last.value.total_chats = 1
    /\ last.value.total_messages = 0
    /\ Len(messages) = 1

====
